---------------------------- MODULE Spec2Model ----------------------------
(***************************************************************************)
(* Model of the lead-reply email backend: the POST /api/generate-email    *)
(* handler (app/routes.py), the request validator, the completion client  *)
(* and the response parser (app/utils.py) and the prompt builder          *)
(* (app/prompts.py).                                                      *)
(*                                                                         *)
(* Text is a sequence of lexemes.  A lexeme is either a single character  *)
(* (" ", "\n", "A", "a", "x") or one of the literals the parser's         *)
(* patterns and the prompt template are built from ("Subject:", "Hi",     *)
(* "Hello", "Dear", "Best regards,", the fixed pieces of the template).   *)
(***************************************************************************)
EXTENDS Naturals, Sequences, FiniteSets

\* Number of handler invocations that run concurrently in SpecConc.
NumRequests == 2
\* Longest completion text (in lexemes) enumerated in SpecParse.
MaxTextLen == 4

Requests == 1..NumRequests

VARIABLES
    pc,                \* position of each handler invocation
    data,              \* routes.py: data = request.json
    validation_error,  \* routes.py: validation_error
    user_prompt,       \* utils.py generate_email_content: user_prompt
    system_prompt,     \* utils.py generate_email_content: system_prompt
    generated_email,   \* utils.py generate_email_content: generated_email
    exc,               \* the exception that reached the handler's except clause
    calls,             \* number of chat.completions.create calls issued
    upstream,          \* state of the invocation's outbound call
    response           \* what the handler returned: status and JSON body

vars == <<pc, data, validation_error, user_prompt, system_prompt,
          generated_email, exc, calls, upstream, response>>

-----------------------------------------------------------------------------
\* Strings

Whitespace == {" ", "\n"}

\* str.lower() on one character
LowerChar(c) == IF c = "A" THEN "a" ELSE c

\* str.lower()
Lower(s) == [i \in 1..Len(s) |-> LowerChar(s[i])]

RECURSIVE LStrip(_)
LStrip(s) == IF s # <<>> /\ Head(s) \in Whitespace THEN LStrip(Tail(s)) ELSE s

RECURSIVE RStrip(_)
RStrip(s) ==
    IF s # <<>> /\ s[Len(s)] \in Whitespace
    THEN RStrip(SubSeq(s, 1, Len(s) - 1))
    ELSE s

\* str.strip()
Strip(s) == LStrip(RStrip(s))

\* All texts over alphabet A of length at most n
TextsUpTo(A, n) == UNION {[1..k -> A] : k \in 0..n}

-----------------------------------------------------------------------------
\* JSON values and request bodies

RequiredFields == <<"tone", "contactName", "companyName", "summary">>
Keys == {"tone", "contactName", "companyName", "summary", "transcript"}

JStr(s) == [type |-> "str", val |-> s]
JNull == [type |-> "null", val |-> <<>>]
JNum == [type |-> "num", val |-> <<>>]
\* the key is not in the object
Absent == [type |-> "absent", val |-> <<>>]

\* isinstance(v, str)
IsStr(v) == v.type = "str"

\* The strings a request field takes: empty, blank, plain, and one that
\* trimming and lowercasing both change.
FieldStrings == {<<>>, <<" ">>, <<"A">>, <<" ", "A">>}

FieldValues == {JStr(s) : s \in FieldStrings} \cup {JNull, JNum, Absent}

\* A JSON object body: every key is absent or carries a value.
ObjectBody(f) == [kind |-> "object", fields |-> f, has |-> {}]

ObjectBodies == {ObjectBody(f) : f \in [Keys -> FieldValues]}

\* Bodies that are not JSON objects.  For a list, has is the set of field
\* names among its elements; for a string, the field names it contains.
NoFields == [k \in Keys |-> Absent]

OtherBodies ==
    {[kind |-> k, fields |-> NoFields, has |-> {}] : k \in {"null", "number"}}
    \cup {[kind |-> k, fields |-> NoFields, has |-> h] :
            k \in {"list", "string"},
            h \in SUBSET {RequiredFields[i] : i \in 1..4}}

RequestBodies == ObjectBodies \cup OtherBodies

NoData == [kind |-> "unset", fields |-> NoFields, has |-> {}]

-----------------------------------------------------------------------------
\* What a call produces: a returned value or a raised exception.

Return(v) == [raised |-> FALSE, value |-> v]
Raise(e) == [raised |-> TRUE, value |-> e]

\* Python's None where an Optional[str] is expected
None == "None"
\* a local variable that no assignment has bound yet
Unbound == "Unbound"

-----------------------------------------------------------------------------
\* utils.py: validate_email_request

\* `field in data`: key membership for a dict, element membership for a
\* list, substring test for a str; None and numbers are not iterable.
InRaises(d) == d.kind \in {"null", "number"}

In(field, d) ==
    IF d.kind = "object" THEN d.fields[field] # Absent ELSE field \in d.has

\* data[field]: only a dict can be indexed by a str
IndexRaises(d) == d.kind # "object"

NonEmptyString(v) == IsStr(v) /\ Strip(v.val) # <<>>

\* Variant of ContentChecks that forgets .strip(): a blank string passes.
ContentChecksNoStrip(d) ==
    LET NonEmpty(v) == IsStr(v) /\ v.val # <<>>
    IN  IF IndexRaises(d) THEN Raise("TypeError")
        ELSE IF ~NonEmpty(d.fields["tone"])
            THEN Return("Tone must be a non-empty string")
        ELSE IF ~NonEmpty(d.fields["contactName"])
            THEN Return("Contact name must be a non-empty string")
        ELSE IF ~NonEmpty(d.fields["companyName"])
            THEN Return("Company name must be a non-empty string")
        ELSE IF ~NonEmpty(d.fields["summary"])
            THEN Return("Summary must be a non-empty string")
        ELSE IF In("transcript", d) /\ ~IsStr(d.fields["transcript"])
            THEN Return("Transcript must be a string if provided")
        ELSE Return(None)

\* The content checks that follow the presence loop, in source order.
ContentChecks(d) ==
    IF IndexRaises(d) THEN Raise("TypeError")
    ELSE IF ~NonEmptyString(d.fields["tone"])
        THEN Return("Tone must be a non-empty string")
    ELSE IF ~NonEmptyString(d.fields["contactName"])
        THEN Return("Contact name must be a non-empty string")
    ELSE IF ~NonEmptyString(d.fields["companyName"])
        THEN Return("Company name must be a non-empty string")
    ELSE IF ~NonEmptyString(d.fields["summary"])
        THEN Return("Summary must be a non-empty string")
    ELSE IF In("transcript", d) /\ ~IsStr(d.fields["transcript"])
        THEN Return("Transcript must be a string if provided")
    ELSE Return(None)

\* for field in required_fields: if field not in data: return ...
RECURSIVE RequiredLoop(_, _)
RequiredLoop(d, i) ==
    IF i > Len(RequiredFields) THEN ContentChecks(d)
    ELSE IF InRaises(d) THEN Raise("TypeError")
    ELSE IF ~In(RequiredFields[i], d)
        THEN Return("Missing required field: " \o RequiredFields[i])
    ELSE RequiredLoop(d, i + 1)

validate_email_request(d) == RequiredLoop(d, 1)

-----------------------------------------------------------------------------
\* prompts.py

SystemPromptText ==
    "You are a sales professional writing a follow-up email. ..."

generate_email_system_prompt == <<SystemPromptText>>

WriteA == "Write a "
FollowUpTo == " follow-up email to "
From == " from "
SummaryHeader == ".\n\nConversation Summary:\n"
TranscriptHeader == "\n\nChat Transcript:\n"
ClosingInstruction == "\n\nWrite a natural email with two clear paragraphs. ..."

\* Python truthiness of data.get('transcript'): None and "" are falsy
Truthy(v) == (IsStr(v) /\ v.val # <<>>) \/ v.type = "num"

\* f"{v}": a str is inserted as it is, anything else as its repr
Format(v) == IF IsStr(v) THEN v.val ELSE <<v.type>>

\* Variant of construct_email_prompt that tests `transcript is not None`
\* instead of its truthiness: an empty transcript gets a section too.
construct_email_prompt_any(tone, contact_name, company_name, summary, transcript) ==
    IF ~IsStr(tone) THEN Raise("AttributeError")
    ELSE Return(
        <<WriteA>> \o Lower(tone.val) \o <<FollowUpTo>> \o Format(contact_name)
        \o <<From>> \o Format(company_name) \o <<SummaryHeader>> \o Format(summary)
        \o (IF transcript # Absent
            THEN <<TranscriptHeader>> \o Format(transcript)
            ELSE <<>>)
        \o <<ClosingInstruction>>)

construct_email_prompt(tone, contact_name, company_name, summary, transcript) ==
    IF ~IsStr(tone) THEN Raise("AttributeError")
    ELSE Return(
        <<WriteA>> \o Lower(tone.val) \o <<FollowUpTo>> \o Format(contact_name)
        \o <<From>> \o Format(company_name) \o <<SummaryHeader>> \o Format(summary)
        \o (IF Truthy(transcript)
            THEN <<TranscriptHeader>> \o Format(transcript)
            ELSE <<>>)
        \o <<ClosingInstruction>>)

-----------------------------------------------------------------------------
\* utils.py: parse_email_response

SubjectTag == "Subject:"
SignOff == "Best regards,"
Greetings == {"Hi", "Hello", "Dear"}
DefaultSubject == <<"Follow-up on our conversation">>

\* The lexemes of a completion text
CompletionAlphabet == {SubjectTag, SignOff, "\n", " ", "x"} \cup Greetings

\* `$` without re.MULTILINE: at the end, or before a final newline
AtEnd(t, p) == p = Len(t) + 1 \/ (p = Len(t) /\ t[p] = "\n")

NoMatch == [found |-> FALSE, from |-> 0, to |-> 0]
Match(a, b) == [found |-> TRUE, from |-> a, to |-> b]

\* (.*?)(?:\n|$) tried at p with the group starting at k: the group grows
\* one non-newline lexeme at a time until a newline or `$` follows.
RECURSIVE LazyLine(_, _, _)
LazyLine(t, k, p) ==
    IF (p <= Len(t) /\ t[p] = "\n") \/ AtEnd(t, p) THEN Match(k, p - 1)
    ELSE IF p <= Len(t) /\ t[p] # "\n" THEN LazyLine(t, k, p + 1)
    ELSE NoMatch

\* the end of the longest run of whitespace starting at p (\s* is greedy)
RECURSIVE SpacesEnd(_, _)
SpacesEnd(t, p) ==
    IF p <= Len(t) /\ t[p] \in Whitespace THEN SpacesEnd(t, p + 1) ELSE p

\* \s* gives back one lexeme at a time until the rest matches
RECURSIVE GreedySpaces(_, _, _)
GreedySpaces(t, lo, k) ==
    IF k < lo THEN NoMatch
    ELSE IF LazyLine(t, k, k).found THEN LazyLine(t, k, k)
    ELSE GreedySpaces(t, lo, k - 1)

\* Subject:\s*(.*?)(?:\n|$) anchored at i; the match is group 1
SubjectAt(t, i) ==
    IF i <= Len(t) /\ t[i] = SubjectTag
    THEN GreedySpaces(t, i + 1, SpacesEnd(t, i + 1))
    ELSE NoMatch

\* Variant of LazyBody for the pattern without its `|$` alternative.
RECURSIVE LazyBodyNoEnd(_, _, _)
LazyBodyNoEnd(t, i, p) ==
    IF p <= Len(t) /\ t[p] = SignOff THEN Match(i, p)
    ELSE IF p <= Len(t) THEN LazyBodyNoEnd(t, i, p + 1)
    ELSE NoMatch

\* (?:Hi|Hello|Dear).*?(?:Best regards,|$) with re.DOTALL, from p on
RECURSIVE LazyBody(_, _, _)
LazyBody(t, i, p) ==
    IF p <= Len(t) /\ t[p] = SignOff THEN Match(i, p)
    ELSE IF AtEnd(t, p) THEN Match(i, p - 1)
    ELSE IF p <= Len(t) THEN LazyBody(t, i, p + 1)
    ELSE NoMatch

BodyAt(t, i) ==
    IF i <= Len(t) /\ t[i] \in Greetings THEN LazyBody(t, i, i + 1) ELSE NoMatch

\* re.search: the match at the leftmost position that has one
RECURSIVE SearchSubject(_, _)
SearchSubject(t, i) ==
    IF i > Len(t) + 1 THEN NoMatch
    ELSE IF SubjectAt(t, i).found THEN SubjectAt(t, i)
    ELSE SearchSubject(t, i + 1)

RECURSIVE SearchBody(_, _)
SearchBody(t, i) ==
    IF i > Len(t) + 1 THEN NoMatch
    ELSE IF BodyAt(t, i).found THEN BodyAt(t, i)
    ELSE SearchBody(t, i + 1)

Group(t, m) == SubSeq(t, m.from, m.to)

ExtractSubject(t) ==
    LET subject_match == SearchSubject(t, 1)
    IN  IF subject_match.found THEN Strip(Group(t, subject_match))
        ELSE DefaultSubject

ExtractBody(t) ==
    LET body_match == SearchBody(t, 1)
    IN  IF body_match.found THEN Strip(Group(t, body_match)) ELSE t

EmailFields == {"subject", "body", "summary", "contactName", "companyName", "tone"}

\* Variant of parse_email_response that calls subject_match.group(1)
\* without testing subject_match: no Subject: in the text raises.
parse_email_response_strict(response_text, form_data) ==
    IF ~SearchSubject(response_text, 1).found THEN Raise("AttributeError")
    ELSE Return([subject |-> JStr(ExtractSubject(response_text)),
                 body |-> JStr(ExtractBody(response_text)),
                 summary |-> form_data.fields["summary"],
                 contactName |-> form_data.fields["contactName"],
                 companyName |-> form_data.fields["companyName"],
                 tone |-> form_data.fields["tone"]])

\* Variant of parse_email_response that echoes the tone as the prompt uses
\* it, lowercased.
parse_email_response_lowered(response_text, form_data) ==
    IF IndexRaises(form_data) THEN Raise("TypeError")
    ELSE Return([subject |-> JStr(ExtractSubject(response_text)),
                 body |-> JStr(ExtractBody(response_text)),
                 summary |-> form_data.fields["summary"],
                 contactName |-> form_data.fields["contactName"],
                 companyName |-> form_data.fields["companyName"],
                 tone |-> JStr(Lower(Format(form_data.fields["tone"])))])

parse_email_response(response_text, form_data) ==
    IF IndexRaises(form_data) THEN Raise("TypeError")
    ELSE Return([subject |-> JStr(ExtractSubject(response_text)),
                 body |-> JStr(ExtractBody(response_text)),
                 summary |-> form_data.fields["summary"],
                 contactName |-> form_data.fields["contactName"],
                 companyName |-> form_data.fields["companyName"],
                 tone |-> form_data.fields["tone"]])

-----------------------------------------------------------------------------
\* routes.py: generate_email, one step per call it makes

NoResponse == [status |-> 0, json |-> [error |-> ""]]

\* return jsonify({'error': validation_error}), 400
ValidationResponse(msg) == [status |-> 400, json |-> [error |-> msg]]

\* Variant of ExceptionResponse that reports str(e) to the caller.
ExceptionResponseLeaky(e) == [status |-> 500, json |-> [error |-> e]]

\* except Exception as e: return jsonify({'error': 'Failed to generate email'}), 500
ExceptionResponse(e) == [status |-> 500, json |-> [error |-> "Failed to generate email"]]

\* return jsonify(email_response)
SuccessResponse(email) == [status |-> 200, json |-> email]

\* Variant of RequestData in which `data` is a module-level global that
\* the first invocation's assignment is read through by every invocation.
SharedRequestData(r) == IF data[1] # NoData THEN data[1] ELSE data[r]

\* the invocation's own local variable `data`
RequestData(r) == data[r]

\* an exception propagates to the handler's except clause
Fail(r, e) ==
    /\ exc' = [exc EXCEPT ![r] = e]
    /\ response' = [response EXCEPT ![r] = ExceptionResponse(e)]
    /\ pc' = [pc EXCEPT ![r] = "done"]

\* data = request.json
Receive(r, bodies) ==
    /\ pc[r] = "start"
    /\ \E b \in bodies : data' = [data EXCEPT ![r] = b]
    /\ pc' = [pc EXCEPT ![r] = "validate"]
    /\ UNCHANGED <<validation_error, user_prompt, system_prompt,
                   generated_email, exc, calls, upstream, response>>

\* validation_error = validate_email_request(data); if validation_error: 400
Validate(r) ==
    /\ pc[r] = "validate"
    /\ LET res == validate_email_request(RequestData(r))
       IN  IF res.raised
           THEN /\ Fail(r, res.value)
                /\ UNCHANGED validation_error
           ELSE /\ validation_error' = [validation_error EXCEPT ![r] = res.value]
                /\ IF res.value # None
                   THEN /\ response' = [response EXCEPT
                                          ![r] = ValidationResponse(res.value)]
                        /\ pc' = [pc EXCEPT ![r] = "done"]
                   ELSE /\ pc' = [pc EXCEPT ![r] = "client"]
                        /\ UNCHANGED response
                /\ UNCHANGED exc
    /\ UNCHANGED <<data, user_prompt, system_prompt, generated_email,
                   calls, upstream>>

\* client = get_openai_client(): OpenAI(...) returns a client or raises
\* (it raises when no API key is configured)
GetClient(r) ==
    /\ pc[r] = "client"
    /\ \/ /\ pc' = [pc EXCEPT ![r] = "prompt"]
          /\ UNCHANGED <<exc, response>>
       \/ Fail(r, "OpenAIError")
    /\ UNCHANGED <<data, validation_error, user_prompt, system_prompt,
                   generated_email, calls, upstream>>

\* system_prompt = generate_email_system_prompt();
\* user_prompt = construct_email_prompt(...)
BuildPrompts(r) ==
    /\ pc[r] = "prompt"
    /\ LET d == RequestData(r)
           res == construct_email_prompt(d.fields["tone"], d.fields["contactName"],
                                         d.fields["companyName"], d.fields["summary"],
                                         d.fields["transcript"])
       IN  IF res.raised
           THEN /\ Fail(r, res.value)
                /\ UNCHANGED <<user_prompt, system_prompt>>
           ELSE /\ system_prompt' = [system_prompt EXCEPT
                                        ![r] = generate_email_system_prompt]
                /\ user_prompt' = [user_prompt EXCEPT ![r] = res.value]
                /\ pc' = [pc EXCEPT ![r] = "call"]
                /\ UNCHANGED <<exc, response>>
    /\ UNCHANGED <<data, validation_error, generated_email, calls, upstream>>

\* call_openai: client.chat.completions.create(...) is issued
CallOpenAI(r) ==
    /\ pc[r] = "call"
    /\ calls' = [calls EXCEPT ![r] = @ + 1]
    /\ upstream' = [upstream EXCEPT ![r] = "inflight"]
    /\ pc' = [pc EXCEPT ![r] = "await"]
    /\ UNCHANGED <<data, validation_error, user_prompt, system_prompt,
                   generated_email, exc, response>>

\* the failures of the outbound call: transport, authentication, and a
\* response with no usable choices[0].message.content
UpstreamErrors == {"APIConnectionError", "AuthenticationError", "MalformedResponse"}

\* call_openai returns completion.choices[0].message.content
UpstreamReturns(r, texts) ==
    /\ pc[r] = "await"
    /\ \E t \in texts : generated_email' = [generated_email EXCEPT ![r] = t]
    /\ upstream' = [upstream EXCEPT ![r] = "returned"]
    /\ pc' = [pc EXCEPT ![r] = "parse"]
    /\ UNCHANGED <<data, validation_error, user_prompt, system_prompt,
                   exc, calls, response>>

\* Variant of UpstreamFails that retries the call instead of re-raising.
UpstreamFailsRetry(r) ==
    /\ pc[r] = "await"
    /\ upstream' = [upstream EXCEPT ![r] = "failed"]
    /\ pc' = [pc EXCEPT ![r] = "call"]
    /\ UNCHANGED <<data, validation_error, user_prompt, system_prompt,
                   generated_email, exc, calls, response>>

\* call_openai raises; generate_email_content re-raises; the handler answers
UpstreamFails(r) ==
    /\ pc[r] = "await"
    /\ upstream' = [upstream EXCEPT ![r] = "failed"]
    /\ \E e \in UpstreamErrors : Fail(r, e)
    /\ UNCHANGED <<data, validation_error, user_prompt, system_prompt,
                   generated_email, calls>>

\* return parse_email_response(generated_email, data); return jsonify(...)
ParseAndRespond(r) ==
    /\ pc[r] = "parse"
    /\ LET res == parse_email_response(generated_email[r], RequestData(r))
       IN  IF res.raised
           THEN Fail(r, res.value)
           ELSE /\ response' = [response EXCEPT ![r] = SuccessResponse(res.value)]
                /\ pc' = [pc EXCEPT ![r] = "done"]
                /\ UNCHANGED exc
    /\ UNCHANGED <<data, validation_error, user_prompt, system_prompt,
                   generated_email, calls, upstream>>

\* One handler invocation, its body drawn from bodies and the completion
\* text of its upstream call from texts.
Handle(r, bodies, texts) ==
    \/ Receive(r, bodies)
    \/ Validate(r)
    \/ GetClient(r)
    \/ BuildPrompts(r)
    \/ CallOpenAI(r)
    \/ UpstreamReturns(r, texts)
    \/ UpstreamFails(r)
    \/ ParseAndRespond(r)

\* The state after the invocations in active have been dispatched.
Dispatched(active) ==
    /\ pc = [r \in Requests |-> IF r \in active THEN "start" ELSE "idle"]
    /\ data = [r \in Requests |-> NoData]
    /\ validation_error = [r \in Requests |-> Unbound]
    /\ user_prompt = [r \in Requests |-> <<>>]
    /\ system_prompt = [r \in Requests |-> <<>>]
    /\ generated_email = [r \in Requests |-> <<>>]
    /\ exc = [r \in Requests |-> None]
    /\ calls = [r \in Requests |-> 0]
    /\ upstream = [r \in Requests |-> "none"]
    /\ response = [r \in Requests |-> NoResponse]

-----------------------------------------------------------------------------
\* Spec: one invocation, every request body, representative completions.

WellFormedEmail ==
    <<SubjectTag, " ", "x", "\n", "Hi", " ", "x", "\n", SignOff, "\n">>

Completions ==
    {<<>>, <<"x">>, WellFormedEmail, <<SubjectTag, "\n", "Hi", "x">>,
     <<"x", " ", "Dear", "x", "\n">>}

Init == Dispatched({1})

Next == Handle(1, RequestBodies, Completions)

Spec == Init /\ [][Next]_vars

\* SpecConc: NumRequests invocations interleaved, representative inputs.

Fields(tone, contactName, companyName, summary, transcript) ==
    [k \in Keys |->
        CASE k = "tone" -> tone
          [] k = "contactName" -> contactName
          [] k = "companyName" -> companyName
          [] k = "summary" -> summary
          [] OTHER -> transcript]

\* two valid requests: a plain one, and one with a transcript and fields
\* that trimming and lowercasing change
ValidRequests ==
    {ObjectBody(Fields(JStr(<<"A">>), JStr(<<"A">>), JStr(<<"A">>),
                       JStr(<<"A">>), Absent)),
     ObjectBody(Fields(JStr(<<" ", "A">>), JStr(<<" ", "A">>), JStr(<<"A">>),
                       JStr(<<" ", "A">>), JStr(<<"A">>)))}

ConcBodies ==
    {[kind |-> "null", fields |-> NoFields, has |-> {}],
     ObjectBody(Fields(JStr(<<"A">>), JStr(<<"A">>), JStr(<<"A">>),
                       Absent, Absent))}
    \cup ValidRequests

ConcCompletions == {<<"x">>, WellFormedEmail}

InitConc == Dispatched(Requests)

NextConc == \E r \in Requests : Handle(r, ConcBodies, ConcCompletions)

SpecConc == InitConc /\ [][NextConc]_vars

\* SpecParse: one invocation of a valid request, every completion text of
\* at most MaxTextLen lexemes.

InitParse == Dispatched({1})

NextParse == Handle(1, ValidRequests, TextsUpTo(CompletionAlphabet, MaxTextLen))

SpecParse == InitParse /\ [][NextParse]_vars

-----------------------------------------------------------------------------
\* Properties

Done(r) == pc[r] = "done"

\* the validator returned an error message
ValidatorRejected(r) == validation_error[r] \notin {Unbound, None}

\* the validator returned None
ValidatorPassed(r) == validation_error[r] = None

Range(s) == {s[i] : i \in 1..Len(s)}

CheckList(d) ==
    LET f == d.fields
        Present(k) == f[k].type # "absent"
        Filled(k) == f[k].type = "str" /\ \E i \in 1..Len(f[k].val) :
                                             f[k].val[i] \notin {" ", "\n"}
    IN  << [ok |-> Present("tone"), msg |-> "Missing required field: tone"],
           [ok |-> Present("contactName"), msg |-> "Missing required field: contactName"],
           [ok |-> Present("companyName"), msg |-> "Missing required field: companyName"],
           [ok |-> Present("summary"), msg |-> "Missing required field: summary"],
           [ok |-> Filled("tone"), msg |-> "Tone must be a non-empty string"],
           [ok |-> Filled("contactName"), msg |-> "Contact name must be a non-empty string"],
           [ok |-> Filled("companyName"), msg |-> "Company name must be a non-empty string"],
           [ok |-> Filled("summary"), msg |-> "Summary must be a non-empty string"],
           [ok |-> ~Present("transcript") \/ f["transcript"].type = "str",
            msg |-> "Transcript must be a string if provided"] >>

FirstFailure(d) ==
    LET failing == {i \in 1..Len(CheckList(d)) : ~CheckList(d)[i].ok}
    IN  IF failing = {} THEN None
        ELSE CheckList(d)[CHOOSE i \in failing : \A j \in failing : i <= j].msg

\* C2: for a JSON object body the validator returns the message of the
\* first failing check in the order presence of tone, contactName,
\* companyName, summary; then non-blank string for each of the four; then
\* transcript a string if present; and it returns None exactly when no
\* check fails.
C2_FirstFailingCheck ==
    \A r \in Requests :
        pc[r] \notin {"idle", "start", "validate"} /\ data[r].kind = "object"
            => validation_error[r] = FirstFailure(data[r])

\* a body with a blank tone and no summary: the presence check wins
C2_Witness ==
    \E r \in Requests :
        /\ Done(r) /\ data[r].kind = "object"
        /\ data[r].fields["tone"] = JStr(<<" ">>)
        /\ data[r].fields["summary"] = Absent
        /\ data[r].fields["contactName"] # Absent
        /\ data[r].fields["companyName"] # Absent
        /\ validation_error[r] = "Missing required field: summary"

\* the required fields a body lacks; a body that is no object holds none
MissingFields(d) ==
    {k \in Range(RequiredFields) : d.kind # "object" \/ d.fields[k] = Absent}

\* C3: a request whose body lacks a required field, whatever the shape of
\* the body, is answered 400 with an error naming a missing field: the
\* validator does not raise and the answer is never 500.
C3_MissingFieldIs400 ==
    \A r \in Requests :
        Done(r) /\ MissingFields(data[r]) # {} =>
            /\ validation_error[r] # Unbound
            /\ response[r].status = 400
            /\ \E k \in MissingFields(data[r]) :
                  response[r].json = [error |-> "Missing required field: " \o k]

\* C4: an exception raised after validation passed is answered with status
\* 500 and the body {"error": "Failed to generate email"}, which carries no
\* text of the exception.
C4_ExceptionIsGeneric500 ==
    \A r \in Requests :
        Done(r) /\ ValidatorPassed(r) /\ exc[r] # None =>
            /\ response[r] = [status |-> 500,
                              json |-> [error |-> "Failed to generate email"]]
            /\ response[r].json.error # exc[r]

\* a transport failure of the upstream call, answered 500
C4_Witness ==
    \E r \in Requests :
        /\ Done(r) /\ ValidatorPassed(r) /\ exc[r] = "APIConnectionError"
        /\ upstream[r] = "failed" /\ response[r].status = 500

\* the least element of a non-empty set of positions, 0 for the empty set
First(S) == IF S = {} THEN 0 ELSE CHOOSE i \in S : \A j \in S : i <= j

\* s without its leading and trailing whitespace
Trimmed(s) ==
    LET ink == {i \in 1..Len(s) : s[i] \notin {" ", "\n"}}
    IN  IF ink = {} THEN <<>>
        ELSE SubSeq(s, First(ink), CHOOSE i \in ink : \A j \in ink : j <= i)

\* the trimmed text that follows the first Subject: up to the end of its line
SameLineSubject(t) ==
    LET i == First({k \in 1..Len(t) : t[k] = SubjectTag})
        nl == First({k \in (i + 1)..Len(t) : t[k] = "\n"})
    IN  IF i = 0 THEN <<"Follow-up on our conversation">>
        ELSE Trimmed(SubSeq(t, i + 1, IF nl = 0 THEN Len(t) ELSE nl - 1))

\* C5: the parsed subject is the trimmed text that follows Subject: on the
\* same line (empty when nothing follows on that line, never text of a
\* later line), and "Follow-up on our conversation" when the completion
\* text holds no Subject:.
C5_SubjectFromSameLine ==
    \A r \in Requests :
        response[r].status = 200 =>
            response[r].json.subject = JStr(SameLineSubject(generated_email[r]))

FirstGreeting(t) == First({k \in 1..Len(t) : t[k] \in {"Hi", "Hello", "Dear"}})

SignOffAfter(t, g) == First({k \in (g + 1)..Len(t) : t[k] = "Best regards,"})

\* C6, as stated: the parsed body is the trimmed span from the first
\* greeting through the first following "Best regards," when there is such
\* a span, and the whole completion text unchanged in every other case.
C6_BodyElseWholeText ==
    \A r \in Requests :
        response[r].status = 200 =>
            LET t == generated_email[r]
                g == FirstGreeting(t)
                so == SignOffAfter(t, g)
            IN  response[r].json.body =
                    JStr(IF g # 0 /\ so # 0 THEN Trimmed(SubSeq(t, g, so)) ELSE t)

\* C6, amended: the parsed body is the trimmed span from the first greeting
\* through the first following "Best regards," when there is one; the
\* trimmed span from the first greeting to the end of the text when no
\* "Best regards," follows the greeting; and the whole completion text
\* unchanged when it holds no greeting.
C6_BodyToEndWithoutSignOff ==
    \A r \in Requests :
        response[r].status = 200 =>
            LET t == generated_email[r]
                g == FirstGreeting(t)
                so == SignOffAfter(t, g)
            IN  response[r].json.body =
                    JStr(IF g = 0 THEN t
                         ELSE IF so # 0 THEN Trimmed(SubSeq(t, g, so))
                         ELSE Trimmed(SubSeq(t, g, Len(t))))

\* a completion with text before its greeting and no sign-off after it
C6_Witness ==
    \E r \in Requests :
        /\ response[r].status = 200
        /\ FirstGreeting(generated_email[r]) > 1
        /\ SignOffAfter(generated_email[r], FirstGreeting(generated_email[r])) = 0
        /\ response[r].json.body # JStr(generated_email[r])

\* C7: once the upstream call has returned a completion text, whatever the
\* text, the request is answered 200 with the six fields of an
\* EmailResponse; no exception is raised.
C7_ParsingNeverFails ==
    \A r \in Requests :
        Done(r) /\ upstream[r] = "returned" =>
            /\ response[r].status = 200
            /\ DOMAIN response[r].json = EmailFields
            /\ exc[r] = None

\* the empty completion text, answered 200 with the default subject
C7_Witness ==
    \E r \in Requests :
        /\ Done(r) /\ upstream[r] = "returned" /\ generated_email[r] = <<>>
        /\ response[r].status = 200
        /\ response[r].json.subject = JStr(<<"Follow-up on our conversation">>)

\* C8: in a 200 response summary, contactName, companyName and tone are the
\* request's values, character for character.
C8_EchoVerbatim ==
    \A r \in Requests :
        response[r].status = 200 =>
            \A k \in {"summary", "contactName", "companyName", "tone"} :
                response[r].json[k] = data[r].fields[k]

\* a 200 response to a request whose tone trimming and lowercasing change
C8_Witness ==
    \E r \in Requests :
        /\ response[r].status = 200
        /\ data[r].fields["tone"] = JStr(<<" ", "A">>)
        /\ response[r].json.tone = JStr(<<" ", "A">>)
        /\ generated_email[r] # <<>>

\* C9: the user prompt sent upstream is the template with the tone
\* lowercased and contactName, companyName and summary unchanged; it holds
\* the "Chat Transcript:" section, with the transcript, exactly when the
\* transcript is present and non-empty; the closing instruction is its
\* last part; the system prompt is the one fixed string.
C9_PromptTemplate ==
    \A r \in Requests :
        calls[r] = 1 =>
            LET f == data[r].fields
                p == user_prompt[r]
                tr == f["transcript"]
                hasT == tr.type = "str" /\ Len(tr.val) > 0
                lowered == [i \in 1..Len(f["tone"].val) |->
                               IF f["tone"].val[i] = "A" THEN "a"
                               ELSE f["tone"].val[i]]
                head == <<"Write a ">> \o lowered \o <<" follow-up email to ">>
                        \o f["contactName"].val \o <<" from ">>
                        \o f["companyName"].val
                        \o <<".\n\nConversation Summary:\n">> \o f["summary"].val
            IN  /\ Len(p) > Len(head)
                /\ SubSeq(p, 1, Len(head)) = head
                /\ p[Len(p)] = ClosingInstruction
                /\ ClosingInstruction \notin Range(SubSeq(p, 1, Len(p) - 1))
                /\ TranscriptHeader \in Range(p) <=> hasT
                /\ SubSeq(p, Len(head) + 1, Len(p) - 1) =
                       IF hasT THEN <<TranscriptHeader>> \o tr.val ELSE <<>>
                /\ system_prompt[r] = <<SystemPromptText>>

\* a prompt sent for a request with an upper-case tone and an empty transcript
C9_Witness ==
    \E r \in Requests :
        /\ calls[r] = 1
        /\ data[r].fields["tone"] = JStr(<<" ", "A">>)
        /\ data[r].fields["transcript"] = JStr(<<>>)
        /\ TranscriptHeader \notin Range(user_prompt[r])

\* the response a request gets when it is handled alone, from its own body
\* and the outcome of its own client construction and upstream call
Alone(d, e, text) ==
    LET v == validate_email_request(d)
        failed == [status |-> 500, json |-> [error |-> "Failed to generate email"]]
    IN  IF v.raised THEN failed
        ELSE IF v.value # None THEN [status |-> 400, json |-> [error |-> v.value]]
        ELSE IF e # None THEN failed
        ELSE [status |-> 200, json |-> parse_email_response(text, d).value]

\* C10: in every interleaving of concurrent invocations, each finished
\* request's response is the one it gets when handled alone: it is
\* determined by its own body and the outcome of its own upstream call.
C10_RequestsIndependent ==
    \A r \in Requests :
        Done(r) => response[r] = Alone(data[r], exc[r], generated_email[r])

\* two requests in flight together that end differently
C10_Witness ==
    \E r1, r2 \in Requests :
        /\ r1 # r2 /\ Done(r1) /\ Done(r2)
        /\ data[r1] # data[r2]
        /\ response[r1].status = 200 /\ response[r2].status = 400
        /\ generated_email[r1] # generated_email[r2]

=============================================================================
